---- MODULE Spec2Model ----
(***************************************************************************)
(* Model of kas/kas.py: the entry point of kas.  main() wraps kas(argv),   *)
(* which sets up logging, parses the command line, installs the no-op      *)
(* signal handlers, registers the exit-time drain, and dispatches to the   *)
(* plugin the subcommand names; main() turns what kas() raised into the    *)
(* process exit code.  One action per statement block of kas() and main(), *)
(* so that a signal can arrive between any two of them.                    *)
(***************************************************************************)
EXTENDS Integers, Sequences, FiniteSets, TLC

VARIABLES
    argv,          \* sys.argv[1:]
    pc,            \* position of the main thread
    args,          \* the Namespace parse_args returned
    rootLevel,     \* threshold of the root logger (numeric)
    logCalls,      \* the logging.info / logging.error calls made so far
    tracePrinted,  \* number of traceback.print_exc() calls
    helpPrinted,   \* number of parser.print_help() calls
    versionPrinted,\* number of times the version string was printed
    sigHandlers,   \* signals with a handler installed on the event loop
    sigCount,      \* signals delivered to the process so far
    atexitFuncs,   \* functions registered with atexit, in order
    atexitLog,     \* one record per run of _atexit_handler
    ran,           \* plugin.run calls: plugin class and arguments
    outcome,       \* what kas() returned or raised
    exitCode,      \* the code main() handed to sys.exit (0 on plain return)
    exitStatus,    \* the status the operating system sees
    pending,       \* tasks still pending on the event loop: id -> kind
    finished,      \* pending tasks that ran to their end
    loopClosed     \* loop.is_closed()

vars == <<argv, pc, args, rootLevel, logCalls, tracePrinted, helpPrinted,
          versionPrinted, sigHandlers, sigCount, atexitFuncs, atexitLog,
          ran, outcome, exitCode, exitStatus, pending, finished, loopClosed>>

\* everything but the count of delivered signals
progVars == <<argv, pc, args, rootLevel, logCalls, tracePrinted, helpPrinted,
              versionPrinted, sigHandlers, atexitFuncs, atexitLog,
              ran, outcome, exitCode, exitStatus, pending, finished, loopClosed>>

(***************************************************************************)
(* Bounds                                                                  *)
(***************************************************************************)
MaxArgs == 3        \* length of the argument vector
MaxPluginArgs == 1  \* arguments after the subcommand name
MaxTasks == 2       \* tasks a plugin leaves pending on the loop
MaxSignals == 1     \* signals delivered during one invocation

None == "None"

Signals == {"SIGINT", "SIGTERM"}

\* sample of argument-vector tokens: the global options, one valid level,
\* the registered subcommands and a word that is neither
Tokens == {"--version", "-d", "-l", "critical", "build", "shell", "bogus"}

\* return codes of the external command a CommandExecError wraps
RetCodes == {-9, 0, 42}

(***************************************************************************)
(* Logging                                                                 *)
(***************************************************************************)
default_log_level == "info"

LogLevelChoices == {"debug", "info", "warning", "error", "critical"}

\* logging.getLevelName(name.upper())
getLevelName(name) ==
    CASE name = "debug" -> 10
      [] name = "info" -> 20
      [] name = "warning" -> 30
      [] name = "error" -> 40
      [] name = "critical" -> 50

\* the record of one call on the root logger: it is emitted only when its
\* severity reaches the logger's threshold
LogRecord(level, msg, threshold) ==
    [level |-> level, msg |-> msg, emitted |-> level >= threshold]

(***************************************************************************)
(* Error taxonomy (kas.kasusererror) and the plugin registry (kas.plugins) *)
(***************************************************************************)
\* CommandExecError is a KasUserError
IsKasUserError(kind) == kind \in {"KasUserError", "CommandExecError"}

\* KasUserError and every other ordinary failure derive from Exception;
\* SystemExit and the like derive from BaseException only
IsException(kind) == IsKasUserError(kind) \/ kind = "Exception"

PLUGINS == [build |-> "BuildPlugin", shell |-> "ShellPlugin"]

PluginNames == DOMAIN PLUGINS

plugins_get(name) == IF name \in DOMAIN PLUGINS THEN PLUGINS[name] ELSE None

NoOutcome == [kind |-> None, ret_code |-> 0, forward |-> FALSE]
Success == [kind |-> "Success", ret_code |-> 0, forward |-> FALSE]
Raised(kind) == [kind |-> kind, ret_code |-> 0, forward |-> FALSE]
SystemExit(code) == [kind |-> "SystemExit", ret_code |-> code, forward |-> FALSE]

\* what plugin.run(args) may do: return, or raise one of the kinds
PluginOutcomes ==
    {Success, Raised("KasUserError"), Raised("Exception"), Raised("BaseException")}
    \cup [kind : {"CommandExecError"}, ret_code : RetCodes, forward : BOOLEAN]

TaskKinds == {"ok", "KasUserError", "CommandExecError", "Exception"}

\* asyncio.all_tasks(loop) is a set: the tasks are numbered in one fixed
\* order of their kinds
KindRank(kind) ==
    CASE kind = "ok" -> 1
      [] kind = "KasUserError" -> 2
      [] kind = "CommandExecError" -> 3
      [] kind = "Exception" -> 4

TaskSets ==
    {f \in UNION {[1..n -> TaskKinds] : n \in 0..MaxTasks} :
        \A i, j \in DOMAIN f : i < j => KindRank(f[i]) <= KindRank(f[j])}

(***************************************************************************)
(* The argument parser built by kas_get_argparser                          *)
(***************************************************************************)
NoArgs == [log_level |-> None, cmd |-> None]

ParseResult(result, lvl, cmd, rest) ==
    [result |-> result, log_level |-> lvl, cmd |-> cmd, rest |-> rest]

\* a parser whose subcommand is required: no subcommand is a usage error
RECURSIVE ParseFrom_required(_, _, _)
ParseFrom_required(av, i, lvl) ==
    IF i > Len(av) THEN ParseResult("error", lvl, None, <<>>)
    ELSE IF av[i] = "--version" THEN ParseResult("version", lvl, None, <<>>)
    ELSE IF av[i] = "-d" THEN ParseFrom_required(av, i + 1, "debug")
    ELSE IF av[i] = "-l" THEN
        IF i + 1 <= Len(av) /\ av[i + 1] \in LogLevelChoices
        THEN ParseFrom_required(av, i + 2, av[i + 1])
        ELSE ParseResult("error", lvl, None, <<>>)
    ELSE IF av[i] \in PluginNames
        THEN ParseResult("ok", lvl, av[i], SubSeq(av, i + 1, Len(av)))
    ELSE ParseResult("error", lvl, None, <<>>)

\* a parser whose --version is a plain flag: parsing goes on after it
RECURSIVE ParseFrom_versionflag(_, _, _)
ParseFrom_versionflag(av, i, lvl) ==
    IF i > Len(av) THEN ParseResult("ok", lvl, None, <<>>)
    ELSE IF av[i] = "--version" THEN ParseFrom_versionflag(av, i + 1, lvl)
    ELSE IF av[i] = "-d" THEN ParseFrom_versionflag(av, i + 1, "debug")
    ELSE IF av[i] = "-l" THEN
        IF i + 1 <= Len(av) /\ av[i + 1] \in LogLevelChoices
        THEN ParseFrom_versionflag(av, i + 2, av[i + 1])
        ELSE ParseResult("error", lvl, None, <<>>)
    ELSE IF av[i] \in PluginNames
        THEN ParseResult("ok", lvl, av[i], SubSeq(av, i + 1, Len(av)))
    ELSE ParseResult("error", lvl, None, <<>>)

\* argparse walks the vector left to right: --version exits at once, -d
\* stores 'debug' in log_level, -l stores its argument when it is one of the
\* choices, the first positional must be a subcommand name and hands the
\* rest of the vector to that plugin's parser
RECURSIVE ParseFrom(_, _, _)
ParseFrom(av, i, lvl) ==
    IF i > Len(av) THEN ParseResult("ok", lvl, None, <<>>)
    ELSE IF av[i] = "--version" THEN ParseResult("version", lvl, None, <<>>)
    ELSE IF av[i] = "-d" THEN ParseFrom(av, i + 1, "debug")
    ELSE IF av[i] = "-l" THEN
        IF i + 1 <= Len(av) /\ av[i + 1] \in LogLevelChoices
        THEN ParseFrom(av, i + 2, av[i + 1])
        ELSE ParseResult("error", lvl, None, <<>>)
    ELSE IF av[i] \in PluginNames
        THEN ParseResult("ok", lvl, av[i], SubSeq(av, i + 1, Len(av)))
    ELSE ParseResult("error", lvl, None, <<>>)

\* both -d and -l write log_level; argparse takes the default of the first
\* action declared for a dest, which is -d's None
parse_args(av) == ParseFrom(av, 1, None)

\* number of tokens after the first subcommand name
RECURSIVE PluginArgCount(_)
PluginArgCount(av) ==
    IF av = <<>> THEN 0
    ELSE IF Head(av) \in PluginNames THEN Len(av) - 1
    ELSE PluginArgCount(Tail(av))

ArgvSet == {av \in UNION {[1..n -> Tokens] : n \in 0..MaxArgs} :
                PluginArgCount(av) <= MaxPluginArgs}

(***************************************************************************)
(* Initial state: main() is about to call kas(sys.argv[1:])                *)
(***************************************************************************)
Init ==
    /\ argv \in ArgvSet
    /\ pc = "start"
    /\ args = NoArgs
    /\ rootLevel = getLevelName("warning")
    /\ logCalls = <<>>
    /\ tracePrinted = 0
    /\ helpPrinted = 0
    /\ versionPrinted = 0
    /\ sigHandlers = {}
    /\ sigCount = 0
    /\ atexitFuncs = <<>>
    /\ atexitLog = <<>>
    /\ ran = <<>>
    /\ outcome = NoOutcome
    /\ exitCode = 0
    /\ exitStatus = -1          \* no status yet
    /\ pending = <<>>
    /\ finished = {}
    /\ loopClosed = FALSE

(***************************************************************************)
(* kas(argv)                                                               *)
(***************************************************************************)
create_logger ==
    /\ pc = "start"
    /\ rootLevel' = getLevelName(default_log_level)
    /\ pc' = "logger"
    /\ UNCHANGED <<argv, args, logCalls, tracePrinted, helpPrinted,
                   versionPrinted, sigHandlers, sigCount, atexitFuncs,
                   atexitLog, ran, outcome, exitCode, exitStatus, pending,
                   finished, loopClosed>>

\* parser = kas_get_argparser(); args = parser.parse_args(argv)
\* The version action and a usage error leave through SystemExit.  What
\* follows a subcommand name is parsed by that plugin's own parser, which
\* accepts it (first disjunct) or rejects it (last disjunct).
kas_parse ==
    /\ pc = "logger"
    /\ LET r == parse_args(argv) IN
       \/ /\ r.result = "ok"
          /\ args' = [log_level |-> r.log_level, cmd |-> r.cmd]
          /\ pc' = "parsed"
          /\ UNCHANGED <<outcome, versionPrinted>>
       \/ /\ r.result = "version"
          /\ versionPrinted' = versionPrinted + 1
          /\ outcome' = SystemExit(0)
          /\ pc' = "raised"
          /\ UNCHANGED args
       \/ /\ \/ r.result = "error"
             \/ r.result = "ok" /\ r.cmd # None
          /\ outcome' = SystemExit(2)
          /\ pc' = "raised"
          /\ UNCHANGED <<args, versionPrinted>>
    /\ UNCHANGED <<argv, rootLevel, logCalls, tracePrinted, helpPrinted,
                   sigHandlers, sigCount, atexitFuncs, atexitLog, ran,
                   exitCode, exitStatus, pending, finished, loopClosed>>

\* the parsed level is never applied
NewLevel_keep(a, old) == old

\* the level the root logger has after lines 159-161
NewLevel(a, old) ==
    IF a.log_level # None THEN getLevelName(a.log_level) ELSE old

kas_set_level ==
    /\ pc = "parsed"
    /\ rootLevel' = NewLevel(args, rootLevel)
    /\ logCalls' = Append(logCalls, LogRecord(20, "started", rootLevel'))
    /\ pc' = "levelset"
    /\ UNCHANGED <<argv, args, tracePrinted, helpPrinted, versionPrinted,
                   sigHandlers, sigCount, atexitFuncs, atexitLog, ran,
                   outcome, exitCode, exitStatus, pending, finished,
                   loopClosed>>

\* the handlers are installed after the dispatch only: nothing happens here
kas_add_signal_handlers_late ==
    /\ pc = "levelset"
    /\ pc' = "signals"
    /\ UNCHANGED <<argv, args, rootLevel, logCalls, tracePrinted, helpPrinted,
                   versionPrinted, sigHandlers, sigCount, atexitFuncs,
                   atexitLog, ran, outcome, exitCode, exitStatus, pending,
                   finished, loopClosed>>

kas_add_signal_handlers ==
    /\ pc = "levelset"
    /\ sigHandlers' = sigHandlers \cup Signals
    /\ pc' = "signals"
    /\ UNCHANGED <<argv, args, rootLevel, logCalls, tracePrinted, helpPrinted,
                   versionPrinted, sigCount, atexitFuncs, atexitLog, ran,
                   outcome, exitCode, exitStatus, pending, finished,
                   loopClosed>>

\* the exit handler is never registered
kas_atexit_register_skip ==
    /\ pc = "signals"
    /\ pc' = "registered"
    /\ UNCHANGED <<argv, args, rootLevel, logCalls, tracePrinted, helpPrinted,
                   versionPrinted, sigHandlers, sigCount, atexitFuncs,
                   atexitLog, ran, outcome, exitCode, exitStatus, pending,
                   finished, loopClosed>>

kas_atexit_register ==
    /\ pc = "signals"
    /\ atexitFuncs' = Append(atexitFuncs, "_atexit_handler")
    /\ pc' = "registered"
    /\ UNCHANGED <<argv, args, rootLevel, logCalls, tracePrinted, helpPrinted,
                   versionPrinted, sigHandlers, sigCount, atexitLog, ran,
                   outcome, exitCode, exitStatus, pending, finished,
                   loopClosed>>

\* the plugin is run twice
RunPlugin_twice(cls, a, calls) ==
    calls \o <<[plugin |-> cls, args |-> a], [plugin |-> cls, args |-> a]>>

\* the plugin.run calls after dispatching to plugin class cls
RunPlugin(cls, a, calls) == Append(calls, [plugin |-> cls, args |-> a])

kas_dispatch ==
    /\ pc = "registered"
    /\ LET plugin_class == plugins_get(args.cmd) IN
       IF plugin_class # None
       THEN /\ ran' = RunPlugin(plugin_class, args, ran)
            /\ pc' = "running"
            /\ UNCHANGED <<helpPrinted, outcome>>
       ELSE /\ helpPrinted' = helpPrinted + 1
            /\ outcome' = Success
            /\ pc' = "returned"
            /\ UNCHANGED ran
    /\ UNCHANGED <<argv, args, rootLevel, logCalls, tracePrinted,
                   versionPrinted, sigHandlers, sigCount, atexitFuncs,
                   atexitLog, exitCode, exitStatus, pending, finished,
                   loopClosed>>

\* plugin.run(args) comes back: it returns or raises, may leave tasks
\* pending on the loop, and may have closed the loop (which removes the
\* loop's signal handlers)
plugin_run ==
    /\ pc = "running"
    /\ \E o \in PluginOutcomes, tasks \in TaskSets, closed \in BOOLEAN :
        /\ outcome' = o
        /\ pending' = tasks
        /\ loopClosed' = closed
        /\ sigHandlers' = IF closed THEN {} ELSE sigHandlers
        /\ pc' = IF o.kind = "Success" THEN "returned" ELSE "raised"
    /\ UNCHANGED <<argv, args, rootLevel, logCalls, tracePrinted, helpPrinted,
                   versionPrinted, sigCount, atexitFuncs, atexitLog, ran,
                   exitCode, exitStatus, finished>>

(***************************************************************************)
(* main(): the try/except around kas()                                     *)
(***************************************************************************)
\* a bare except as the last clause: it catches the SystemExit as well
ExceptClause_bare(o) ==
    IF o.kind = "Success" THEN "none"
    ELSE IF o.kind = "CommandExecError" THEN "CommandExecError"
    ELSE IF IsKasUserError(o.kind) THEN "KasUserError"
    ELSE "Exception"

\* a failure caught by the wrong clause: KasUserError tried first
ExceptClause_userfirst(o) ==
    IF o.kind = "Success" THEN "none"
    ELSE IF IsKasUserError(o.kind) THEN "KasUserError"
    ELSE IF o.kind = "CommandExecError" THEN "CommandExecError"
    ELSE IF IsException(o.kind) THEN "Exception"
    ELSE "uncaught"

\* the except clause of main() that catches o; the clauses are tried in
\* the order written, each with an isinstance test
ExceptClause(o) ==
    IF o.kind = "Success" THEN "none"
    ELSE IF o.kind = "CommandExecError" THEN "CommandExecError"
    ELSE IF IsKasUserError(o.kind) THEN "KasUserError"
    ELSE IF IsException(o.kind) THEN "Exception"
    ELSE "uncaught"

\* the forward test inverted
ExitCodeOf_inverted(clause, o) ==
    CASE clause = "none" -> 0
      [] clause = "CommandExecError" -> IF o.forward THEN 2 ELSE o.ret_code
      [] clause = "KasUserError" -> 2
      [] clause = "Exception" -> 1
      [] clause = "uncaught" -> IF o.kind = "SystemExit" THEN o.ret_code ELSE 1

\* the code the process exits with.  What no clause catches leaves main():
\* a SystemExit carries its own code, any other uncaught exception makes
\* the interpreter exit with 1.
ExitCodeOf(clause, o) ==
    CASE clause = "none" -> 0
      [] clause = "CommandExecError" -> IF o.forward THEN o.ret_code ELSE 2
      [] clause = "KasUserError" -> 2
      [] clause = "Exception" -> 1
      [] clause = "uncaught" -> IF o.kind = "SystemExit" THEN o.ret_code ELSE 1

\* a trace printed in every except clause
TraceOf_always(clause) ==
    IF clause \in {"CommandExecError", "KasUserError", "Exception"} THEN 1 ELSE 0

\* the trace printed in the wrong clause
TraceOf_swapped(clause) == IF clause = "KasUserError" THEN 1 ELSE 0

\* the traceback.print_exc() calls of the clause
TraceOf(clause) == IF clause = "Exception" THEN 1 ELSE 0

\* the logging.error('%s', err) call of the clause
LogsOf(clause, o, threshold) ==
    IF clause \in {"CommandExecError", "KasUserError", "Exception"}
    THEN <<LogRecord(40, o.kind, threshold)>>
    ELSE <<>>

\* what main() does with the outcome of kas()
main_translate(o, threshold) ==
    LET clause == ExceptClause(o)
    IN [code |-> ExitCodeOf(clause, o),
        log |-> LogsOf(clause, o, threshold),
        trace |-> TraceOf(clause)]

main ==
    /\ pc \in {"returned", "raised"}
    /\ LET t == main_translate(outcome, rootLevel) IN
        /\ exitCode' = t.code
        /\ logCalls' = logCalls \o t.log
        /\ tracePrinted' = tracePrinted + t.trace
    /\ pc' = "exiting"
    /\ UNCHANGED <<argv, args, rootLevel, helpPrinted, versionPrinted,
                   sigHandlers, sigCount, atexitFuncs, atexitLog, ran,
                   outcome, exitStatus, pending, finished, loopClosed>>

(***************************************************************************)
(* Process exit: the registered atexit functions run, then the process     *)
(* ends with the low eight bits of the exit code                           *)
(***************************************************************************)
\* a wait that returns as soon as any one task is done
Drain_first(tasks) ==
    LET failing == {t \in DOMAIN tasks : tasks[t] # "ok"}
        good == DOMAIN tasks \ failing
    IN IF failing = {}
       THEN {[done |-> S, raised |-> None] : S \in SUBSET DOMAIN tasks}
       ELSE {[done |-> S \cup {f}, raised |-> tasks[f]] :
                f \in failing, S \in SUBSET good}

\* the possible ends of loop.run_until_complete(asyncio.gather(*pending)):
\* with no failing task all of them finish; otherwise gather raises the
\* first failure, which ends the wait while the tasks that had not finished
\* by then stay unfinished
Drain(tasks) ==
    LET failing == {t \in DOMAIN tasks : tasks[t] # "ok"}
        good == DOMAIN tasks \ failing
    IN IF failing = {}
       THEN {[done |-> DOMAIN tasks, raised |-> None]}
       ELSE {[done |-> S \cup {f}, raised |-> tasks[f]] :
                f \in failing, S \in SUBSET good}

\* every failure of the wait is dropped
Suppressed_all(kind) == kind \in TaskKinds

\* the failure run_until_complete raised leaves _atexit_handler unless the
\* except clause of line 107 catches it
Suppressed(kind) == IsKasUserError(kind)

\* without a running loop the handler closes the event loop all the same
NoRunningLoop_close ==
    /\ loopClosed' = TRUE
    /\ sigHandlers' = {}
    /\ UNCHANGED finished

\* get_running_loop raised RuntimeError: the handler returns at line 95
NoRunningLoop == UNCHANGED <<finished, loopClosed, sigHandlers>>

\* a failure leaving an exit function turns the exit code into 1
AtexitExitCode_fail(code, raised) == IF raised # None THEN 1 ELSE code

\* the exit code once an exit function is over: atexit reports a failure
\* that leaves the function on stderr and goes on, the code stays
AtexitExitCode(code, raised) == code

\* the record of one run of the handler: whether it got hold of a loop,
\* whether it waited for the tasks, the failure the wait ended with, the
\* failure that left the handler, and whether it closed the loop
HandlerRun(loop, drained, failure, raised, closed) ==
    [loop |-> loop, drained |-> drained, failure |-> failure,
     raised |-> raised, closed |-> closed]

\* One run of _atexit_handler.  legacy: the interpreter predates
\* asyncio.get_running_loop (AttributeError, line 96).  Otherwise
\* get_running_loop raises RuntimeError, since no loop is running in the
\* main thread once main() is over.
_atexit_handler ==
    /\ pc = "exiting"
    /\ Len(atexitLog) < Len(atexitFuncs)
    /\ \E legacy \in BOOLEAN :
        IF ~legacy THEN
            /\ atexitLog' = Append(atexitLog,
                   HandlerRun(FALSE, FALSE, None, None, FALSE))
            /\ NoRunningLoop
            /\ exitCode' = AtexitExitCode(exitCode, None)
        ELSE IF loopClosed THEN
            /\ atexitLog' = Append(atexitLog,
                   HandlerRun(TRUE, FALSE, None, None, FALSE))
            /\ UNCHANGED <<finished, loopClosed, sigHandlers>>
            /\ exitCode' = AtexitExitCode(exitCode, None)
        ELSE \E r \in Drain(pending) :
            /\ finished' = finished \cup r.done
            /\ IF r.raised = None \/ Suppressed(r.raised)
               THEN /\ loopClosed' = TRUE
                    /\ sigHandlers' = {}
                    /\ atexitLog' = Append(atexitLog,
                           HandlerRun(TRUE, TRUE, r.raised, None, TRUE))
                    /\ exitCode' = AtexitExitCode(exitCode, None)
               ELSE /\ atexitLog' = Append(atexitLog,
                           HandlerRun(TRUE, TRUE, r.raised, r.raised, FALSE))
                    /\ UNCHANGED <<loopClosed, sigHandlers>>
                    /\ exitCode' = AtexitExitCode(exitCode, r.raised)
    /\ UNCHANGED <<argv, pc, args, rootLevel, logCalls, tracePrinted,
                   helpPrinted, versionPrinted, sigCount, atexitFuncs, ran,
                   outcome, exitStatus, pending>>

\* the status the operating system keeps of an exit code
ExitStatus(code) == code % 256

terminate ==
    /\ pc = "exiting"
    /\ Len(atexitLog) >= Len(atexitFuncs)
    /\ exitStatus' = ExitStatus(exitCode)
    /\ pc' = "terminated"
    /\ UNCHANGED <<argv, args, rootLevel, logCalls, tracePrinted, helpPrinted,
                   versionPrinted, sigHandlers, sigCount, atexitFuncs,
                   atexitLog, ran, outcome, exitCode, pending, finished,
                   loopClosed>>

(***************************************************************************)
(* Signals                                                                 *)
(***************************************************************************)
\* a handler that ends the process
interruption_kill ==
    /\ pc' = "killed"
    /\ UNCHANGED <<argv, args, rootLevel, logCalls, tracePrinted,
                   helpPrinted, versionPrinted, sigHandlers,
                   atexitFuncs, atexitLog, ran, outcome, exitCode,
                   exitStatus, pending, finished, loopClosed>>

\* the handler kas installs for SIGINT and SIGTERM
interruption == UNCHANGED progVars

\* A signal reaches the process.  With the loop's handler installed,
\* interruption() is what runs; without it the signal has its default
\* effect: SIGTERM ends the process, SIGINT raises KeyboardInterrupt, which
\* main() does not catch.
signal(sig) ==
    /\ pc \notin {"terminated", "killed"}
    /\ sigCount < MaxSignals
    /\ sigCount' = sigCount + 1
    /\ IF sig \in sigHandlers
       THEN interruption
       ELSE /\ pc' = "killed"
            /\ UNCHANGED <<argv, args, rootLevel, logCalls, tracePrinted,
                           helpPrinted, versionPrinted, sigHandlers,
                           atexitFuncs, atexitLog, ran, outcome, exitCode,
                           exitStatus, pending, finished, loopClosed>>

Next ==
    \/ create_logger
    \/ kas_parse
    \/ kas_set_level
    \/ kas_add_signal_handlers
    \/ kas_atexit_register
    \/ kas_dispatch
    \/ plugin_run
    \/ main
    \/ _atexit_handler
    \/ terminate
    \/ \E sig \in Signals : signal(sig)

Spec == Init /\ [][Next]_vars

(***************************************************************************)
(* Properties                                                              *)
(***************************************************************************)
\* the logging.error calls made, and those of them that were emitted
ErrorCalls == Cardinality({i \in DOMAIN logCalls : logCalls[i].level = 40})
ErrorLines == Cardinality({i \in DOMAIN logCalls :
                              logCalls[i].level = 40 /\ logCalls[i].emitted})

\* an ERROR record passes the root logger's threshold
ErrorEnabled == rootLevel <= 40

\* the first n tokens of av are well-formed global options: -d, or -l
\* followed by one of its choices
GlobalPrefix(av, n) ==
    \A j \in 1..n :
        \/ av[j] = "-d"
        \/ av[j] = "-l" /\ j + 1 <= n /\ av[j + 1] \in LogLevelChoices
        \/ av[j] \in LogLevelChoices /\ j > 1 /\ av[j - 1] = "-l"

\* C1 (as stated): a CommandExecError with forward set and ret_code c is
\* logged and the process exits with exactly c.
C1_AsStated ==
    (pc = "terminated" /\ outcome.kind = "CommandExecError" /\ outcome.forward)
        => (ErrorLines >= 1 /\ exitStatus = outcome.ret_code)

\* C1 (amended): a CommandExecError with forward set and ret_code c is
\* handed to logging.error once, emitted unless the threshold is above
\* ERROR, no trace is printed, and sys.exit(c) is called: the exit status is
\* c modulo 256, which is c itself for 0 <= c <= 255, and neither the 2 of
\* the KasUserError clause nor the 1 of the catch-all.
C1_ForwardedExit ==
    (pc = "terminated" /\ outcome.kind = "CommandExecError" /\ outcome.forward)
        => /\ exitCode = outcome.ret_code
           /\ exitStatus \in 0..255
           /\ (exitStatus - outcome.ret_code) % 256 = 0
           /\ (outcome.ret_code \in 0..255 => exitStatus = outcome.ret_code)
           /\ ErrorCalls = 1
           /\ ErrorLines = (IF ErrorEnabled THEN 1 ELSE 0)
           /\ tracePrinted = 0

C1_Witness ==
    /\ pc = "terminated"
    /\ outcome = [kind |-> "CommandExecError", ret_code |-> 42, forward |-> TRUE]
    /\ exitStatus = 42
    /\ ErrorLines = 1

\* C2 (as stated): a KasUserError, or a CommandExecError without forward,
\* exits with 2, logs one error line and prints no trace.
C2_AsStated ==
    (/\ pc = "terminated"
     /\ \/ outcome.kind = "KasUserError"
        \/ outcome.kind = "CommandExecError" /\ ~outcome.forward)
        => (exitStatus = 2 /\ ErrorLines = 1 /\ tracePrinted = 0)

\* C2 (amended): a KasUserError, or a CommandExecError without forward
\* whatever its ret_code, exits with 2, is handed to logging.error exactly
\* once, which emits one line unless the threshold is above ERROR
\* (--log-level critical), and no trace is printed.
C2_UserError ==
    (/\ pc = "terminated"
     /\ \/ outcome.kind = "KasUserError"
        \/ outcome.kind = "CommandExecError" /\ ~outcome.forward)
        => /\ exitStatus = 2
           /\ ErrorCalls = 1
           /\ ErrorLines = (IF ErrorEnabled THEN 1 ELSE 0)
           /\ tracePrinted = 0

C2_Witness ==
    /\ pc = "terminated"
    /\ outcome = [kind |-> "CommandExecError", ret_code |-> 42, forward |-> FALSE]
    /\ exitStatus = 2
    /\ ErrorLines = 1
    /\ tracePrinted = 0

\* C3 (as stated): any failure of kas() that is neither a KasUserError nor
\* a CommandExecError is logged, traced and exits with 1.
C3_AsStated ==
    (/\ pc = "terminated"
     /\ \/ outcome.kind \in {"Exception", "BaseException"}
        \/ outcome.kind = "SystemExit" /\ outcome.ret_code # 0)
        => (ErrorLines >= 1 /\ tracePrinted = 1 /\ exitStatus = 1)

\* C3 (amended): a failure derived from Exception that is neither a
\* KasUserError nor a CommandExecError is handed to logging.error once
\* (emitted unless the threshold is above ERROR), a trace is printed once
\* and the process exits with 1; the parser's exit and failures not derived
\* from Exception are not caught by main(): nothing is logged for them.
C3_InternalError ==
    /\ (pc = "terminated" /\ outcome.kind = "Exception")
        => /\ exitStatus = 1
           /\ ErrorCalls = 1
           /\ ErrorLines = (IF ErrorEnabled THEN 1 ELSE 0)
           /\ tracePrinted = 1
    /\ (pc = "terminated" /\ outcome.kind \in {"BaseException", "SystemExit"})
        => (ErrorCalls = 0 /\ tracePrinted = 0)

C3_Witness ==
    /\ pc = "terminated"
    /\ outcome.kind = "Exception"
    /\ exitStatus = 1
    /\ tracePrinted = 1
    /\ ErrorLines = 1

\* C4: once kas() has dispatched on a parsed subcommand N, the plugin
\* registered under N has been run exactly once with the parsed arguments,
\* no other plugin has been run and the usage text has not been printed.
C4_RoutesToPlugin ==
    (/\ pc \in {"running", "returned", "raised", "exiting", "terminated"}
     /\ args.cmd \in PluginNames)
        => /\ Len(ran) = 1
           /\ ran[1].plugin = PLUGINS[args.cmd]
           /\ ran[1].args = args
           /\ helpPrinted = 0

C4_Witness ==
    /\ pc = "returned"
    /\ args.cmd = "shell"
    /\ ran = <<[plugin |-> "ShellPlugin", args |-> args]>>
    /\ helpPrinted = 0

\* C5: an invocation without subcommand (only well-formed global options)
\* never runs a plugin, and when it ends it has printed the help text once
\* and exits with 0.
C5_NoSubcommand ==
    GlobalPrefix(argv, Len(argv))
        => /\ ran = <<>>
           /\ pc = "terminated"
                => (helpPrinted = 1 /\ outcome = Success /\ exitStatus = 0)

C5_Witness ==
    /\ pc = "terminated"
    /\ argv = <<"-l", "critical">>
    /\ helpPrinted = 1
    /\ exitStatus = 0
    /\ ran = <<>>

\* no pending task raises
AllTasksOk == \A t \in DOMAIN pending : pending[t] = "ok"

C7_AsStated ==
    pc = "terminated" => (Len(atexitFuncs) = 1 /\ Len(atexitLog) = 1)

\* C7 (amended): on every invocation whose arguments parse and that exits
\* normally, the exit handler is registered once and runs exactly once,
\* after the main sequence has produced its outcome and before the process
\* ends; when parse_args exits (--version, usage error) the handler is
\* never registered and never runs.
C7_ExitHandlerOnce ==
    /\ (pc = "terminated" /\ outcome.kind # "SystemExit")
        => (atexitFuncs = <<"_atexit_handler">> /\ Len(atexitLog) = 1)
    /\ outcome.kind = "SystemExit" => (atexitFuncs = <<>> /\ atexitLog = <<>>)
    /\ Len(atexitLog) <= Len(atexitFuncs)
    /\ atexitLog # <<>>
        => (outcome # NoOutcome /\ pc \in {"exiting", "terminated", "killed"})

C7_Witness ==
    /\ pc = "terminated"
    /\ outcome.kind = "KasUserError"
    /\ atexitFuncs = <<"_atexit_handler">>
    /\ Len(atexitLog) = 1

\* C8 (as stated): a signal delivered at any point of the invocation
\* changes nothing in the process.
C8_AsStated == [][sigCount' # sigCount => UNCHANGED progVars]_vars

\* C8 (amended): while the loop's handlers are installed (from line 168
\* until the event loop is closed) a delivered SIGINT or SIGTERM changes
\* nothing: the process goes on, no task is cancelled, outcome and exit
\* code are untouched.  Before that the signal has its default effect.
C8_SignalIgnored ==
    [][(sigCount' # sigCount /\ sigHandlers = Signals)
          => UNCHANGED progVars]_vars

C8_Witness ==
    /\ sigCount = 1
    /\ pc = "terminated"
    /\ exitStatus = 0
    /\ ran # <<>>

\* the level the command line selects: that of the last -d or -l before
\* the subcommand, 'info' without any
SelectedLevel(av) ==
    LET cmdAt == {i \in 1..Len(av) : av[i] \in PluginNames}
        stop == IF cmdAt = {} THEN Len(av) + 1
                ELSE CHOOSE i \in cmdAt : \A j \in cmdAt : i <= j
        flags == {i \in 1..(stop - 1) : av[i] \in {"-d", "-l"}}
        last == CHOOSE i \in flags : \A j \in flags : j <= i
    IN IF flags = {} THEN default_log_level
       ELSE IF av[last] = "-d" THEN "debug" ELSE av[last + 1]

\* C9: while a plugin's run is in progress the root logger's threshold is
\* the level selected on the command line.
C9_LevelBeforeRun ==
    pc = "running" => rootLevel = getLevelName(SelectedLevel(argv))

C9_Witness ==
    /\ pc = "running"
    /\ argv = <<"-l", "critical", "build">>
    /\ rootLevel = 50

\* position of the first --version the top-level parser reaches: every
\* token before it is a well-formed global option
VersionReached(av) ==
    \E i \in 1..Len(av) : av[i] = "--version" /\ GlobalPrefix(av, i - 1)

\* C10 (as stated): an invocation carrying --version exits with 0 and runs
\* no plugin, wherever the flag stands.
C10_AsStated ==
    (\E i \in 1..Len(argv) : argv[i] = "--version")
        => (ran = <<>> /\ (pc = "terminated" => exitStatus = 0))

\* C10 (amended): an invocation whose --version is reached by the
\* top-level parser (only well-formed global options before it) prints the
\* version, exits with 0 and runs no plugin, also when a subcommand follows.
C10_Version ==
    VersionReached(argv)
        => /\ ran = <<>>
           /\ pc = "terminated" => (exitStatus = 0 /\ versionPrinted = 1)

C10_Witness ==
    /\ pc = "terminated"
    /\ argv = <<"-d", "--version", "build">>
    /\ versionPrinted = 1
    /\ exitStatus = 0
    /\ ran = <<>>

\* the top-level parser rejects av: the first token that is not part of a
\* well-formed global option is neither --version nor a subcommand name,
\* or a -l lacks a valid level
Malformed(av) ==
    \E i \in 1..Len(av) :
        /\ GlobalPrefix(av, i - 1)
        /\ \/ av[i] = "bogus"
           \/ av[i] \in LogLevelChoices
           \/ av[i] = "-l" /\ (i = Len(av) \/ av[i + 1] \notin LogLevelChoices)

\* C11: when argument parsing rejects the argument vector no plugin is run
\* and the process exits with 2; the parser's exit is not caught by main():
\* nothing is logged as an error and no trace is printed.
C11_UsageError ==
    /\ Malformed(argv) => (ran = <<>> /\ outcome \in {NoOutcome, SystemExit(2)})
    /\ outcome = SystemExit(2)
        => /\ ran = <<>>
           /\ pc = "terminated"
                => (exitStatus = 2 /\ ErrorCalls = 0 /\ tracePrinted = 0)
    /\ (Malformed(argv) /\ pc = "terminated") => outcome = SystemExit(2)

C11_Witness ==
    /\ pc = "terminated"
    /\ argv = <<"-l", "bogus">>
    /\ outcome = SystemExit(2)
    /\ exitStatus = 2
    /\ tracePrinted = 0

C13_NoLoopNoOp ==
    [][(/\ Len(atexitLog') > Len(atexitLog)
        /\ ~atexitLog'[Len(atexitLog')].loop)
          => /\ atexitLog'[Len(atexitLog')].raised = None
             /\ ~atexitLog'[Len(atexitLog')].drained
             /\ UNCHANGED <<argv, pc, args, rootLevel, logCalls, tracePrinted,
                            helpPrinted, versionPrinted, sigHandlers, sigCount,
                            atexitFuncs, ran, outcome, exitCode, exitStatus,
                            pending, finished, loopClosed>>]_vars

C13_Witness ==
    /\ pc = "terminated"
    /\ Len(atexitLog) = 1
    /\ ~atexitLog[1].loop
    /\ Len(pending) = 2
    /\ finished = {}
    /\ ~loopClosed
    /\ sigHandlers = Signals

\* the failures a plugin's run raises
PluginFailed ==
    outcome.kind \in {"KasUserError", "CommandExecError", "Exception",
                      "BaseException"}

C15_InstalledBeforeRun ==
    pc = "running"
        => (sigHandlers = Signals /\ atexitFuncs = <<"_atexit_handler">>)

C15_Witness ==
    /\ pc = "running"
    /\ ran # <<>>
    /\ sigCount = 1
    /\ sigHandlers = Signals
    /\ atexitFuncs = <<"_atexit_handler">>

\* C16: a run of the exit handler, whatever its pending tasks do, leaves
\* the exit code main() chose as it is, and the process ends with the
\* status of that code.
C16_DrainKeepsExitCode ==
    /\ [][Len(atexitLog') > Len(atexitLog)
            => UNCHANGED <<exitCode, exitStatus, outcome>>]_vars
    /\ [](pc = "terminated"
            => exitStatus = main_translate(outcome, rootLevel).code % 256)

C16_Witness ==
    /\ pc = "terminated"
    /\ Len(atexitLog) = 1
    /\ atexitLog[1].raised = "Exception"
    /\ outcome = [kind |-> "CommandExecError", ret_code |-> 42, forward |-> TRUE]
    /\ exitStatus = 42

====
